---- MODULE Spec2Model ----
(***************************************************************************)
(* The neighbor cache of smoltcp (src/iface/neighbor.rs): a map from       *)
(* protocol addresses to hardware addresses with an expiry per entry, the  *)
(* eviction of the earliest-expiring entry of a full fixed-size storage,   *)
(* and one global rate limit ("hush") on discovery requests.               *)
(*                                                                         *)
(* Values.  Option<T> is a sequence of length 0 (None) or 1 (Some(x)).     *)
(* A Neighbor is a record [hardware_addr, expires_at].  A storage pair is  *)
(* a record [key, value].  The ManagedMap is a record with a field kind:   *)
(* "Borrowed" (a slice of Option<pair>, of fixed length) or "Owned" (a     *)
(* BTreeMap, held as the sequence of its pairs in key order).              *)
(* Addresses are numbers: the IPv4 address 1.0.0.n and the Ethernet        *)
(* address 00-00-00-00-00-0n are n, the broadcast addresses are 255.       *)
(*                                                                         *)
(* The tracer device of src/phy/tracer.rs is modelled beside it: it shares *)
(* nothing with the cache and runs in a specification of its own.          *)
(***************************************************************************)
EXTENDS Integers, Sequences, FiniteSets, TLC

VARIABLES
    storage,            \* Cache::storage
    hushed_until,       \* Cache::hushed_until
    debug_assertions,   \* the build: TRUE when debug_assert! is compiled in
    panicked,           \* "" while the program runs, else the panic it died of
    net_trace,          \* what the last fill gave to net_trace!, <<>> for nothing
    not_found_at,       \* history: the timestamps answered NotFound so far
    last_fill,          \* history: for each key stored, the hardware address
                        \* and the timestamp of the most recent fill of it
    fill_order,         \* history, kept where the callers' clock never goes
                        \* back: the keys stored, in the order of the most
                        \* recent fill of each, the earliest first
    tracer              \* phy::Tracer: the tokens it gave out and what the
                        \* last consume of one of them did

vars == <<storage, hushed_until, debug_assertions, panicked, net_trace,
          not_found_at, last_fill, fill_order, tracer>>

----------------------------------------------------------------------------
(* Program constants *)

SILENT_TIME == 1000
ENTRY_LIFETIME == 60000

HADDR_A == 1
HADDR_B == 2
HADDR_C == 3
PADDR_A == 1
PADDR_B == 2
PADDR_C == 3

IP_BROADCAST == 255
ETHERNET_BROADCAST == 255

(* Bounds of the model *)

\* the largest fixed-size storage: slices of 0..MaxCap slots
MaxCap == 2

PAddrs == {PADDR_A, PADDR_B, PADDR_C, IP_BROADCAST}
HAddrs == {HADDR_A, HADDR_B, HADDR_C, ETHERNET_BROADCAST}

\* The timestamps the callers pass: 0, the end of a hush window opened at 0,
\* and the end of the life of an entry filled at 0.  The properties ask the
\* functions also about the timestamps next to the bounds a state holds.
Timestamps == {0, SILENT_TIME, ENTRY_LIFETIME}

----------------------------------------------------------------------------
(* u64 *)

\* A u64 is held as the one integer of -2^63 .. 2^63 - 1 that is congruent to
\* it modulo 2^64 (the integers of the model checker do not reach 2^64): the
\* values up to 2^63 - 1 are themselves and u64::MAX - d is -1 - d.  With a
\* small b, a + b modulo 2^64 is the sum of the integers, and it has gone
\* past u64::MAX exactly when it went from below 0 to 0 or above.  In the
\* order of u64 the integers below 0 come after the others.
U64_MAX == 0 - 1

u64_lt(a, b) == IF (a < 0) = (b < 0) THEN a < b ELSE b < 0
u64_le(a, b) == a = b \/ u64_lt(a, b)

\* a + b on u64 where the build does not check: the sum modulo 2^64
wrapping_add(a, b) == a + b
\* whether a + b is more than u64::MAX; a build with overflow checks (the
\* debug profile) then panics with "attempt to add with overflow"
add_overflows(a, b) == a < 0 /\ a + b >= 0

----------------------------------------------------------------------------
(* Option, Neighbor, Answer *)

None == <<>>
Some(x) == <<x>>
is_some(o) == Len(o) = 1
unwrap(o) == o[1]

Neighbor(h, e) == [hardware_addr |-> h, expires_at |-> e]
Pair(k, v) == [key |-> k, value |-> v]

Found(h) == [tag |-> "Found", addr |-> h]
NotFound == [tag |-> "NotFound"]
Hushed == [tag |-> "Hushed"]

(* wire::IpAddress and wire::EthernetAddress classification *)

ip_is_broadcast(p) == p = IP_BROADCAST
ip_is_unicast(p) == ~ip_is_broadcast(p)
eth_is_unicast(h) == h # ETHERNET_BROADCAST

----------------------------------------------------------------------------
(* managed::ManagedMap, as the cache uses it *)

Borrowed(pairs) == [kind |-> "Borrowed", pairs |-> pairs]
Owned(pairs) == [kind |-> "Owned", pairs |-> pairs]

Ok(x) == [tag |-> "Ok", val |-> x]
Err == [tag |-> "Err"]

\* The occupied entries in iteration order: a slice keeps its pairs sorted by
\* key in its first slots, a BTreeMap iterates in key order.
entries(m) ==
    LET occupied == SelectSeq(m.pairs, is_some)
    IN  [i \in 1..Len(occupied) |-> unwrap(occupied[i])]

keys(m) == { entries(m)[i].key : i \in 1..Len(entries(m)) }

\* binary search by key: Ok(index of the key), or Err(index to insert it at)
binary_search_by_key(es, k) ==
    IF \E i \in 1..Len(es) : es[i].key = k
    THEN Ok(CHOOSE i \in 1..Len(es) : es[i].key = k)
    ELSE [tag |-> "Err", val |-> 1 + Cardinality({i \in 1..Len(es) : es[i].key < k})]

map_clear(m) ==
    IF m.kind = "Borrowed"
    THEN Borrowed([i \in 1..Len(m.pairs) |-> None])
    ELSE Owned(<<>>)

map_get(m, k) ==
    LET es == entries(m)
        r == binary_search_by_key(es, k)
    IN  IF r.tag = "Ok" THEN Some(es[r.val].value) ELSE None

\* Result<Option<V>, (K, V)>: Ok(the value replaced, if any), or Err when a
\* slice has no free slot for a new key.  [map, ret]
map_insert(m, k, v) ==
    LET es == entries(m)
        r == binary_search_by_key(es, k)
        n == Len(m.pairs)
    IN  IF m.kind = "Borrowed" /\ n < 1
        THEN [map |-> m, ret |-> Err]
        ELSE IF r.tag = "Ok"
        THEN [map |-> [m EXCEPT !.pairs[r.val] = Some(Pair(k, v))],
              ret |-> Ok(Some(es[r.val].value))]
        ELSE IF m.kind = "Borrowed" /\ is_some(m.pairs[n])
        THEN [map |-> m, ret |-> Err]
        ELSE IF m.kind = "Borrowed"
        THEN [map |-> Borrowed([i \in 1..n |->
                          IF i < r.val THEN m.pairs[i]
                          ELSE IF i = r.val THEN Some(Pair(k, v))
                          ELSE m.pairs[i - 1]]),
              ret |-> Ok(None)]
        ELSE [map |-> Owned([i \in 1..(Len(es) + 1) |->
                          IF i < r.val THEN m.pairs[i]
                          ELSE IF i = r.val THEN Some(Pair(k, v))
                          ELSE m.pairs[i - 1]]),
              ret |-> Ok(None)]

\* Option<V>: the value removed.  [map, ret]
map_remove(m, k) ==
    LET es == entries(m)
        r == binary_search_by_key(es, k)
        n == Len(m.pairs)
    IN  IF r.tag = "Err"
        THEN [map |-> m, ret |-> None]
        ELSE IF m.kind = "Borrowed"
        THEN [map |-> Borrowed([i \in 1..n |->
                          IF i < r.val THEN m.pairs[i]
                          ELSE IF i < n THEN m.pairs[i + 1]
                          ELSE None]),
              ret |-> Some(es[r.val].value)]
        ELSE [map |-> Owned([i \in 1..(n - 1) |->
                          IF i < r.val THEN m.pairs[i] ELSE m.pairs[i + 1]]),
              ret |-> Some(es[r.val].value)]

----------------------------------------------------------------------------
(* Cache *)

Cache(s, h) == [storage |-> s, hushed_until |-> h]

\* What a call leaves: the cache, the panic it died of ("" for none), and the
\* line it gave to net_trace!: the format and its arguments, <<>> for none.
Done(self, trace) == [self |-> self, panic |-> "", trace |-> trace]
Panic(self, msg) == [self |-> self, panic |-> msg, trace |-> <<>>]

\* Cache::new starting with a hush window open
new_hushed(storage_arg) == Done(Cache(map_clear(storage_arg), SILENT_TIME), <<>>)

\* Cache::new: clears the storage; nothing in it looks at the capacity.
new(storage_arg) == Done(Cache(map_clear(storage_arg), 0), <<>>)

\* the first slot taken for the victim, whatever it expires at
min_by_key_first(pairs) == IF Len(pairs) = 0 THEN 0 ELSE 1

\* the slot that expires last taken for the victim
max_by_key(pairs) ==
    IF Len(pairs) = 0 THEN 0
    ELSE CHOOSE i \in 1..Len(pairs) :
            /\ \A j \in 1..Len(pairs) :
                   u64_le(unwrap(pairs[j]).value.expires_at, unwrap(pairs[i]).value.expires_at)
            /\ \A j \in 1..(i - 1) :
                   u64_lt(unwrap(pairs[j]).value.expires_at, unwrap(pairs[i]).value.expires_at)

\* the last of the slots holding the least key taken for the victim
min_by_key_last(pairs) ==
    IF Len(pairs) = 0 THEN 0
    ELSE CHOOSE i \in 1..Len(pairs) :
            /\ \A j \in 1..Len(pairs) :
                   u64_le(unwrap(pairs[i]).value.expires_at, unwrap(pairs[j]).value.expires_at)
            /\ \A j \in (i + 1)..Len(pairs) :
                   u64_lt(unwrap(pairs[i]).value.expires_at, unwrap(pairs[j]).value.expires_at)

\* Iterator::min_by_key over the slots of a slice, by expires_at: the index of
\* the first slot holding the least key; 0 for an empty slice.
min_by_key(pairs) ==
    IF Len(pairs) = 0 THEN 0
    ELSE CHOOSE i \in 1..Len(pairs) :
            /\ \A j \in 1..Len(pairs) :
                   u64_le(unwrap(pairs[i]).value.expires_at, unwrap(pairs[j]).value.expires_at)
            /\ \A j \in 1..(i - 1) :
                   u64_lt(unwrap(pairs[i]).value.expires_at, unwrap(pairs[j]).value.expires_at)


\* the Err arm of fill inserting again without having removed an entry
evict_and_insert_no_remove(self, protocol_addr, neighbor) ==
    IF self.storage.kind = "Owned"
    THEN Panic(self, "unreachable")
    ELSE LET pairs == self.storage.pairs IN
    IF \E i \in 1..Len(pairs) : ~is_some(pairs[i])
    THEN Panic(self, "unwrap on None")
    ELSE IF min_by_key(pairs) = 0
    THEN Panic(self, "empty neighbor cache storage")
    ELSE LET again == map_insert(self.storage, protocol_addr, neighbor)
         IN  IF again.ret = Ok(None)
             THEN Done([self EXCEPT !.storage = again.map],
                       <<"filled (evicted)", protocol_addr, neighbor.hardware_addr,
                         unwrap(pairs[min_by_key(pairs)]).key,
                         unwrap(pairs[min_by_key(pairs)]).value.hardware_addr>>)
             ELSE Panic([self EXCEPT !.storage = again.map], "unreachable")

\* The Err arm of fill: evict the entry that expires first, insert again.
evict_and_insert(self, protocol_addr, neighbor) ==
    IF self.storage.kind = "Owned"
    THEN Panic(self, "unreachable")
    ELSE LET pairs == self.storage.pairs IN
    IF \E i \in 1..Len(pairs) : ~is_some(pairs[i])
    THEN Panic(self, "unwrap on None")
    ELSE IF min_by_key(pairs) = 0
    THEN Panic(self, "empty neighbor cache storage")
    ELSE LET old_protocol_addr == unwrap(pairs[min_by_key(pairs)]).key
             removed == map_remove(self.storage, old_protocol_addr)
             again == map_insert(removed.map, protocol_addr, neighbor)
         IN  IF ~is_some(removed.ret)
             THEN Panic(self, "unwrap on None")
             ELSE IF again.ret = Ok(None)
             THEN Done([self EXCEPT !.storage = again.map],
                       <<"filled (evicted)", protocol_addr, neighbor.hardware_addr,
                         old_protocol_addr, unwrap(removed.ret).hardware_addr>>)
             ELSE Panic([self EXCEPT !.storage = again.map], "unreachable")

\* fill making room for a new key even where there is room: the entry that
\* expires first is removed before the new one is inserted
fill_evicts_before_insert(self, protocol_addr, hardware_addr, timestamp, debug) ==
    IF debug /\ ~(ip_is_unicast(protocol_addr) /\ eth_is_unicast(hardware_addr))
    THEN Panic(self, "debug_assert")
    ELSE LET neighbor == Neighbor(hardware_addr, timestamp + ENTRY_LIFETIME)
             occupied == SelectSeq(self.storage.pairs, is_some)
             room == IF protocol_addr \in keys(self.storage) \/ Len(occupied) = 0
                     THEN self.storage
                     ELSE map_remove(self.storage,
                                     unwrap(occupied[min_by_key(occupied)]).key).map
             first == map_insert(room, protocol_addr, neighbor)
         IN  IF first.ret.tag = "Err"
             THEN evict_and_insert(self, protocol_addr, neighbor)
             ELSE IF is_some(first.ret.val)
             THEN Done([self EXCEPT !.storage = first.map], <<>>)
             ELSE Done([self EXCEPT !.storage = first.map],
                       <<"filled (was empty)", protocol_addr, hardware_addr>>)

\* fill ending the hush window
fill_closes_window(self, protocol_addr, hardware_addr, timestamp, debug) ==
    IF debug /\ ~(ip_is_unicast(protocol_addr) /\ eth_is_unicast(hardware_addr))
    THEN Panic(self, "debug_assert")
    ELSE LET neighbor == Neighbor(hardware_addr, timestamp + ENTRY_LIFETIME)
             opened == [self EXCEPT !.hushed_until = 0]
             first == map_insert(self.storage, protocol_addr, neighbor)
         IN  IF first.ret.tag = "Err"
             THEN evict_and_insert(opened, protocol_addr, neighbor)
             ELSE IF is_some(first.ret.val)
             THEN Done([opened EXCEPT !.storage = first.map],
                       IF unwrap(first.ret.val).hardware_addr # hardware_addr
                       THEN <<"replaced", protocol_addr, hardware_addr,
                              unwrap(first.ret.val).hardware_addr>>
                       ELSE <<>>)
             ELSE Done([opened EXCEPT !.storage = first.map],
                       <<"filled (was empty)", protocol_addr, hardware_addr>>)

\* fill that evicts whenever the slice is full, without looking whether the
\* key is already there
fill_evict_when_full(self, protocol_addr, hardware_addr, timestamp, debug) ==
    IF debug /\ ~(ip_is_unicast(protocol_addr) /\ eth_is_unicast(hardware_addr))
    THEN Panic(self, "debug_assert")
    ELSE LET neighbor == Neighbor(hardware_addr, timestamp + ENTRY_LIFETIME)
             first == map_insert(self.storage, protocol_addr, neighbor)
             pairs == self.storage.pairs
         IN  IF \/ first.ret.tag = "Err"
                \/ /\ self.storage.kind = "Borrowed"
                   /\ \A i \in 1..Len(pairs) : is_some(pairs[i])
             THEN evict_and_insert(self, protocol_addr, neighbor)
             ELSE IF is_some(first.ret.val)
             THEN Done([self EXCEPT !.storage = first.map],
                       IF unwrap(first.ret.val).hardware_addr # hardware_addr
                       THEN <<"replaced", protocol_addr, hardware_addr,
                              unwrap(first.ret.val).hardware_addr>>
                       ELSE <<>>)
             ELSE Done([self EXCEPT !.storage = first.map],
                       <<"filled (was empty)", protocol_addr, hardware_addr>>)

\* the storage without the entries that have expired at the timestamp
sweep(m, timestamp) ==
    LET fresh(o) == is_some(o) /\ timestamp < unwrap(o).value.expires_at
        kept == SelectSeq(m.pairs, fresh)
    IN  IF m.kind = "Owned"
        THEN Owned(kept)
        ELSE Borrowed([i \in 1..Len(m.pairs) |-> IF i <= Len(kept) THEN kept[i] ELSE None])

\* fill that first drops the entries that have expired
fill_sweeps_stale(self, protocol_addr, hardware_addr, timestamp, debug) ==
    IF debug /\ ~(ip_is_unicast(protocol_addr) /\ eth_is_unicast(hardware_addr))
    THEN Panic(self, "debug_assert")
    ELSE LET neighbor == Neighbor(hardware_addr, timestamp + ENTRY_LIFETIME)
             swept == [self EXCEPT !.storage = sweep(self.storage, timestamp)]
             first == map_insert(swept.storage, protocol_addr, neighbor)
         IN  IF first.ret.tag = "Err"
             THEN evict_and_insert(swept, protocol_addr, neighbor)
             ELSE IF is_some(first.ret.val)
             THEN Done([self EXCEPT !.storage = first.map],
                       IF unwrap(first.ret.val).hardware_addr # hardware_addr
                       THEN <<"replaced", protocol_addr, hardware_addr,
                              unwrap(first.ret.val).hardware_addr>>
                       ELSE <<>>)
             ELSE Done([self EXCEPT !.storage = first.map],
                       <<"filled (was empty)", protocol_addr, hardware_addr>>)

\* fill that inserts only if the key is absent: a present entry is kept
fill_keep_old(self, protocol_addr, hardware_addr, timestamp, debug) ==
    IF debug /\ ~(ip_is_unicast(protocol_addr) /\ eth_is_unicast(hardware_addr))
    THEN Panic(self, "debug_assert")
    ELSE LET neighbor == Neighbor(hardware_addr, timestamp + ENTRY_LIFETIME)
             first == map_insert(self.storage, protocol_addr, neighbor)
         IN  IF first.ret.tag = "Err"
             THEN evict_and_insert(self, protocol_addr, neighbor)
             ELSE IF is_some(first.ret.val)
             THEN Done(self, <<>>)
             ELSE Done([self EXCEPT !.storage = first.map],
                       <<"filled (was empty)", protocol_addr, hardware_addr>>)

\* fill keeping the later of the old and the new expires_at of a present key
fill_extends_expiry(self, protocol_addr, hardware_addr, timestamp, debug) ==
    IF debug /\ ~(ip_is_unicast(protocol_addr) /\ eth_is_unicast(hardware_addr))
    THEN Panic(self, "debug_assert")
    ELSE LET old == map_get(self.storage, protocol_addr)
             expires_at == IF is_some(old) /\ unwrap(old).expires_at > timestamp + ENTRY_LIFETIME
                           THEN unwrap(old).expires_at
                           ELSE timestamp + ENTRY_LIFETIME
             neighbor == Neighbor(hardware_addr, expires_at)
             first == map_insert(self.storage, protocol_addr, neighbor)
         IN  IF first.ret.tag = "Err"
             THEN evict_and_insert(self, protocol_addr, neighbor)
             ELSE IF is_some(first.ret.val)
             THEN Done([self EXCEPT !.storage = first.map],
                       IF unwrap(first.ret.val).hardware_addr # hardware_addr
                       THEN <<"replaced", protocol_addr, hardware_addr,
                              unwrap(first.ret.val).hardware_addr>>
                       ELSE <<>>)
             ELSE Done([self EXCEPT !.storage = first.map],
                       <<"filled (was empty)", protocol_addr, hardware_addr>>)

\* Cache::fill.  [self, panic, trace]
fill(self, protocol_addr, hardware_addr, timestamp, debug) ==
    IF debug /\ ~(ip_is_unicast(protocol_addr) /\ eth_is_unicast(hardware_addr))
    THEN Panic(self, "debug_assert")
    ELSE IF debug /\ add_overflows(timestamp, ENTRY_LIFETIME)
    THEN Panic(self, "attempt to add with overflow")
    ELSE LET neighbor == Neighbor(hardware_addr, wrapping_add(timestamp, ENTRY_LIFETIME))
             first == map_insert(self.storage, protocol_addr, neighbor)
         IN  IF first.ret.tag = "Err"
             THEN evict_and_insert(self, protocol_addr, neighbor)
             ELSE IF is_some(first.ret.val)
             THEN Done([self EXCEPT !.storage = first.map],
                       IF unwrap(first.ret.val).hardware_addr # hardware_addr
                       THEN <<"replaced", protocol_addr, hardware_addr,
                              unwrap(first.ret.val).hardware_addr>>
                       ELSE <<>>)
             ELSE Done([self EXCEPT !.storage = first.map],
                       <<"filled (was empty)", protocol_addr, hardware_addr>>)

\* lookup_pure with an entry still valid at the timestamp it expires at
lookup_pure_inclusive(self, protocol_addr, timestamp) ==
    IF ip_is_broadcast(protocol_addr)
    THEN Some(ETHERNET_BROADCAST)
    ELSE LET got == map_get(self.storage, protocol_addr)
         IN  IF is_some(got) /\ u64_le(timestamp, unwrap(got).expires_at)
             THEN Some(unwrap(got).hardware_addr)
             ELSE None

\* lookup_pure asking the storage first and the broadcast test second
lookup_pure_storage_first(self, protocol_addr, timestamp) ==
    LET got == map_get(self.storage, protocol_addr)
    IN  IF is_some(got) /\ u64_lt(timestamp, unwrap(got).expires_at)
        THEN Some(unwrap(got).hardware_addr)
        ELSE IF ip_is_broadcast(protocol_addr)
        THEN Some(ETHERNET_BROADCAST)
        ELSE None

\* Cache::lookup_pure.  Option<EthernetAddress>
lookup_pure(self, protocol_addr, timestamp) ==
    IF ip_is_broadcast(protocol_addr)
    THEN Some(ETHERNET_BROADCAST)
    ELSE LET got == map_get(self.storage, protocol_addr)
         IN  IF is_some(got) /\ u64_lt(timestamp, unwrap(got).expires_at)
             THEN Some(unwrap(got).hardware_addr)
             ELSE None

\* What lookup leaves: the cache, the answer, and "" for the panic
Answered(self, ret) == [self |-> self, ret |-> ret, panic |-> ""]

\* lookup opening a window of no length: SILENT_TIME is not added
lookup_no_window(self, protocol_addr, timestamp) ==
    LET found == lookup_pure(self, protocol_addr, timestamp)
    IN  IF is_some(found)
        THEN Answered(self, Found(unwrap(found)))
        ELSE IF u64_lt(timestamp, self.hushed_until)
        THEN Answered(self, Hushed)
        ELSE Answered([self EXCEPT !.hushed_until = timestamp],
                      NotFound)

\* lookup still hushed at the timestamp the window ends at
lookup_inclusive(self, protocol_addr, timestamp) ==
    LET found == lookup_pure(self, protocol_addr, timestamp)
    IN  IF is_some(found)
        THEN Answered(self, Found(unwrap(found)))
        ELSE IF u64_le(timestamp, self.hushed_until)
        THEN Answered(self, Hushed)
        ELSE Answered([self EXCEPT !.hushed_until = timestamp + SILENT_TIME],
                      NotFound)

\* lookup looking at the hush window before the storage
lookup_hush_first(self, protocol_addr, timestamp) ==
    LET found == lookup_pure(self, protocol_addr, timestamp)
    IN  IF u64_lt(timestamp, self.hushed_until)
        THEN Answered(self, Hushed)
        ELSE IF is_some(found)
        THEN Answered(self, Found(unwrap(found)))
        ELSE Answered([self EXCEPT !.hushed_until = timestamp + SILENT_TIME],
                      NotFound)

\* lookup dropping the entry it finds expired
lookup_purges_expired(self, protocol_addr, timestamp) ==
    LET found == lookup_pure(self, protocol_addr, timestamp)
        purged == [self EXCEPT !.storage = map_remove(self.storage, protocol_addr).map]
    IN  IF is_some(found)
        THEN Answered(self, Found(unwrap(found)))
        ELSE IF u64_lt(timestamp, self.hushed_until)
        THEN Answered(purged, Hushed)
        ELSE Answered([purged EXCEPT !.hushed_until = timestamp + SILENT_TIME],
                      NotFound)

\* Cache::lookup, in the build the program runs in.  [self, ret, panic]
lookup(self, protocol_addr, timestamp) ==
    LET found == lookup_pure(self, protocol_addr, timestamp)
    IN  IF is_some(found)
        THEN Answered(self, Found(unwrap(found)))
        ELSE IF u64_lt(timestamp, self.hushed_until)
        THEN Answered(self, Hushed)
        ELSE IF debug_assertions /\ add_overflows(timestamp, SILENT_TIME)
        THEN [self |-> self, ret |-> [tag |-> "Panic"],
              panic |-> "attempt to add with overflow"]
        ELSE Answered([self EXCEPT !.hushed_until = wrapping_add(timestamp, SILENT_TIME)],
                      NotFound)

----------------------------------------------------------------------------
(* phy::Tracer *)

\* the longest frame
MaxFrameLen == 1

Bytes == {1, 2}
Frames == UNION { [1..n -> Bytes] : n \in 0..MaxFrameLen }

\* The closure f a caller gives to consume: the Result<R> it returns and, on
\* transmit, the frame it writes into the buffer it is given.
FResults == {Ok(1), Ok(2), [tag |-> "Err", val |-> "Truncated"]}
RxF == { [result |-> r] : r \in FResults }
TxF(len) == { [result |-> r, frame |-> d] : r \in FResults, d \in [1..len -> Bytes] }

\* The writer: fn(u64, PrettyPrinter<P>).  It returns nothing; the log keeps
\* the timestamp, the prefix and the buffer it was given.
writer(log, timestamp, prefix, buffer) ==
    Append(log, <<"writer", timestamp, prefix, buffer>>)

\* f(buffer) on receive: F: FnOnce(&[u8]) -> Result<R>
call_rx_f(f, log, buffer) ==
    [log |-> Append(log, <<"f", buffer>>), result |-> f.result, buffer |-> buffer]

\* f(buffer) on transmit: F: FnOnce(&mut [u8]) -> Result<R>, f fills the frame
call_tx_f(f, log, buffer) ==
    [log |-> Append(log, <<"f", buffer>>), result |-> f.result,
     buffer |-> [i \in 1..Len(buffer) |-> f.frame[i]]]

\* The inner device's tokens (phy::RxToken, phy::TxToken): consume calls the
\* closure it is given once, on receive with the frame received, on transmit
\* with a buffer of len bytes that it sends afterwards, and returns what the
\* closure returned.
inner_rx_buffer(token) == token.frame
inner_tx_buffer(len) == [i \in 1..len |-> 0]

\* the receive closure calling f first and the writer second
rx_closure_f_first(timestamp, f, log, buffer) ==
    LET r == call_rx_f(f, log, buffer)
    IN  [r EXCEPT !.log = writer(r.log, timestamp, "<- ", r.buffer)]

\* the closure RxToken::consume gives to the inner token
rx_closure(timestamp, f, log, buffer) ==
    call_rx_f(f, writer(log, timestamp, "<- ", buffer), buffer)

\* RxToken::consume.  [log, result, sent]
rx_consume(token, timestamp, f) ==
    LET r == rx_closure(timestamp, f, <<<<"token.consume", timestamp>>>>,
                        inner_rx_buffer(token))
    IN  [log |-> r.log, result |-> r.result, sent |-> None]

\* the closure TxToken::consume gives to the inner token
tx_closure(timestamp, f, log, buffer) ==
    LET r == call_tx_f(f, log, buffer)
    IN  [r EXCEPT !.log = writer(r.log, timestamp, "-> ", r.buffer)]

\* TxToken::consume.  [log, result, sent]
tx_consume(token, timestamp, len, f) ==
    LET r == tx_closure(timestamp, f, <<<<"token.consume", timestamp, len>>>>,
                        inner_tx_buffer(len))
    IN  [log |-> r.log, result |-> r.result, sent |-> Some(r.buffer)]

\* The tokens a caller holds (rx: the token of a received frame, if any; tx:
\* whether it holds a transmit token), the last consume called and what that
\* call did.
TracerState(rx, tx, call, done) ==
    [rx |-> rx, tx |-> tx, call |-> call,
     log |-> done.log, result |-> done.result, sent |-> done.sent]

\* Tracer::new: no token given out, nothing consumed
tracer_new == TracerState(None, FALSE, <<>>, [log |-> <<>>, result |-> <<>>, sent |-> None])

----------------------------------------------------------------------------
(* The program: a cache is made over some storage, then called *)

self == Cache(storage, hushed_until)

\* What a caller hands to Cache::new: a slice of 0..MaxCap slots, empty
\* ([None; n]) or still holding pairs of an earlier use, or a BTreeMap.
stale_pair == Some(Pair(PADDR_C, Neighbor(HADDR_C, ENTRY_LIFETIME)))
BorrowedArgs ==
    { Borrowed([i \in 1..n |-> None]) : n \in 0..MaxCap }
    \cup { Borrowed([i \in 1..n |-> stale_pair]) : n \in 1..MaxCap }
OwnedArgs == { Owned(<<>>), Owned(<<stale_pair>>) }

InitWith(args, builds) ==
    \E arg \in args, build \in builds :
        /\ storage = new(arg).self.storage
        /\ hushed_until = new(arg).self.hushed_until
        /\ debug_assertions = build
        /\ panicked = new(arg).panic
        /\ net_trace = new(arg).trace
        /\ not_found_at = {}
        /\ last_fill = <<>>
        /\ fill_order = <<>>
        /\ tracer = tracer_new

\* The arguments callers pass to fill: the pairs of the tests (each address
\* with its own hardware address, and PADDR_A with HADDR_B as well, as in
\* test_replace) at any timestamp, and each of the two ways of breaking the
\* precondition.
UnicastPairs ==
    {<<PADDR_A, HADDR_A>>, <<PADDR_A, HADDR_B>>, <<PADDR_B, HADDR_B>>, <<PADDR_C, HADDR_C>>}
FillArgs ==
    { <<a[1], a[2], t>> : a \in UnicastPairs, t \in Timestamps }
    \cup {<<IP_BROADCAST, HADDR_A, 0>>, <<PADDR_A, ETHERNET_BROADCAST, 0>>}

\* The most recent fills once a call of fill has returned: the call is the
\* most recent fill of its key, and the keys no longer stored are forgotten.
record_fill(fills, stored, protocol_addr, hardware_addr, timestamp) ==
    [k \in (DOMAIN fills \cup {protocol_addr}) \cap stored |->
        IF k = protocol_addr THEN <<hardware_addr, timestamp>> ELSE fills[k]]

FillCall(protocol_addr, hardware_addr, timestamp) ==
    LET r == fill(self, protocol_addr, hardware_addr, timestamp, debug_assertions) IN
    /\ panicked = ""
    /\ storage' = r.self.storage
    /\ hushed_until' = r.self.hushed_until
    /\ panicked' = r.panic
    /\ net_trace' = r.trace
    /\ last_fill' = IF r.panic = ""
                    THEN record_fill(last_fill, keys(r.self.storage),
                                     protocol_addr, hardware_addr, timestamp)
                    ELSE last_fill
    /\ UNCHANGED <<debug_assertions, not_found_at, tracer>>

\* fill called at any timestamp, earlier ones than before included
Fill(protocol_addr, hardware_addr, timestamp) ==
    /\ FillCall(protocol_addr, hardware_addr, timestamp)
    /\ UNCHANGED fill_order

\* the timestamp of the last fill that returned, 0 before the first
fill_clock ==
    IF fill_order = <<>> THEN 0 ELSE last_fill[fill_order[Len(fill_order)]][2]

\* The order of the most recent fills once a call of fill has returned: its
\* key is the last filled, the keys no longer stored are forgotten.
record_order(order, stored, protocol_addr) ==
    LET others(k) == k # protocol_addr /\ k \in stored
    IN  IF protocol_addr \in stored
        THEN Append(SelectSeq(order, others), protocol_addr)
        ELSE SelectSeq(order, others)

\* fill called by a caller whose clock does not go back
FillInOrder(protocol_addr, hardware_addr, timestamp) ==
    /\ fill_clock <= timestamp
    /\ FillCall(protocol_addr, hardware_addr, timestamp)
    /\ fill_order' = IF panicked' = ""
                     THEN record_order(fill_order, keys(storage'), protocol_addr)
                     ELSE fill_order

\* lookup_pure takes &self and returns: nothing of the cache changes
LookupPure(protocol_addr, timestamp) ==
    /\ panicked = ""
    /\ lookup_pure(self, protocol_addr, timestamp) \in {None} \cup {Some(h) : h \in HAddrs}
    /\ UNCHANGED vars

Lookup(protocol_addr, timestamp) ==
    LET r == lookup(self, protocol_addr, timestamp) IN
    /\ panicked = ""
    /\ storage' = r.self.storage
    /\ hushed_until' = r.self.hushed_until
    /\ panicked' = r.panic
    /\ not_found_at' = IF r.ret = NotFound THEN not_found_at \cup {timestamp}
                       ELSE not_found_at
    /\ UNCHANGED <<debug_assertions, net_trace, last_fill, fill_order, tracer>>

Next ==
    \/ \E a \in FillArgs : Fill(a[1], a[2], a[3])
    \/ \E p \in PAddrs, t \in Timestamps : LookupPure(p, t)
    \/ \E p \in PAddrs, t \in Timestamps : Lookup(p, t)

\* A cache over a fixed-size slice, in a release build.  A debug build differs
\* only in that a fill that breaks the precondition panics: a release build
\* reaches every state a debug build runs in.
Init == InitWith(BorrowedArgs, {FALSE})
Spec == Init /\ [][Next]_vars

\* A cache over a fixed-size slice, in a debug build
InitDebug == InitWith(BorrowedArgs, {TRUE})
SpecDebug == InitDebug /\ [][Next]_vars

\* A cache over a BTreeMap, in a release build
InitOwned == InitWith(OwnedArgs, {FALSE})
SpecOwned == InitOwned /\ [][Next]_vars

\* A cache over a fixed-size slice, in a release build, filled at timestamps
\* that never decrease from one fill to the next
NextMonotonic ==
    \/ \E a \in FillArgs : FillInOrder(a[1], a[2], a[3])
    \/ \E p \in PAddrs, t \in Timestamps : LookupPure(p, t)
    \/ \E p \in PAddrs, t \in Timestamps : Lookup(p, t)

InitMonotonic == InitWith(BorrowedArgs, {FALSE})
SpecMonotonic == InitMonotonic /\ [][NextMonotonic]_vars

\* A cache over a fixed-size slice, in either build, called with the last
\* timestamps of u64: the last one fill can add its constant to, the first
\* one it cannot, the first one lookup cannot, and u64::MAX.
LateTimestamps ==
    {U64_MAX - ENTRY_LIFETIME, U64_MAX - ENTRY_LIFETIME + 1,
     U64_MAX - SILENT_TIME + 1, U64_MAX}
LateFillArgs ==
    { <<a[1], a[2], t>> : a \in {<<PADDR_A, HADDR_A>>, <<PADDR_B, HADDR_B>>},
                          t \in LateTimestamps }

NextLate ==
    \/ \E a \in LateFillArgs : Fill(a[1], a[2], a[3])
    \/ \E p \in PAddrs, t \in LateTimestamps : LookupPure(p, t)
    \/ \E p \in PAddrs, t \in LateTimestamps : Lookup(p, t)

InitLate == InitWith(BorrowedArgs, {FALSE, TRUE})
SpecLate == InitLate /\ [][NextLate]_vars

(* The program around a tracer: tokens are taken from it and consumed *)

cache_vars == <<storage, hushed_until, debug_assertions, panicked, net_trace,
                not_found_at, last_fill, fill_order>>

\* Tracer::receive: the tokens of the inner device, if it has a frame, each
\* wrapped with the writer.  Tokens borrow the device: those of an earlier
\* call are gone by now.
TracerReceive(received) ==
    /\ tracer' = [tracer EXCEPT !.rx = received, !.tx = is_some(received)]
    /\ UNCHANGED cache_vars

\* Tracer::transmit: the transmit token of the inner device, if it gives one
TracerTransmit(available) ==
    /\ tracer' = [tracer EXCEPT !.rx = None, !.tx = available]
    /\ UNCHANGED cache_vars

RxConsume(timestamp, f) ==
    /\ is_some(tracer.rx)
    /\ LET token == unwrap(tracer.rx) IN
       tracer' = TracerState(None, tracer.tx,
                     [dir |-> "rx", timestamp |-> timestamp, len |-> Len(token.frame),
                      f |-> f, frame |-> token.frame],
                     rx_consume(token, timestamp, f))
    /\ UNCHANGED cache_vars

TxConsume(timestamp, len, f) ==
    /\ tracer.tx
    /\ tracer' = TracerState(tracer.rx, FALSE,
                     [dir |-> "tx", timestamp |-> timestamp, len |-> len,
                      f |-> f, frame |-> f.frame],
                     tx_consume([len |-> len], timestamp, len, f))
    /\ UNCHANGED cache_vars

NextTracer ==
    \/ \E received \in {None} \cup { Some([frame |-> fr]) : fr \in Frames } :
           TracerReceive(received)
    \/ \E available \in BOOLEAN : TracerTransmit(available)
    \/ \E t \in Timestamps, f \in RxF : RxConsume(t, f)
    \/ \E t \in Timestamps, len \in 0..MaxFrameLen : \E f \in TxF(len) :
           TxConsume(t, len, f)

InitTracer == InitWith({Owned(<<>>)}, {FALSE})
SpecTracer == InitTracer /\ [][NextTracer]_vars

----------------------------------------------------------------------------
(* Properties *)

Running == panicked = ""
Evicted == Len(net_trace) > 0 /\ net_trace[1] = "filled (evicted)"
Replaced == Len(net_trace) > 0 /\ net_trace[1] = "replaced"
Full(m) == Len(m.pairs) > 0 /\ \A i \in 1..Len(m.pairs) : is_some(m.pairs[i])

\* fill applied to the cache as it is now
fill_now(a) == fill(self, a[1], a[2], a[3], debug_assertions)

\* C1: right after fill(P, H, t0) with a unicast P, lookup_pure(P, t) is H for
\* every t0 <= t < t0 + 60_000 and nothing for every t >= t0 + 60_000,
\* whatever the cache held before and whether or not the fill evicted.
C1_FillThenLookup ==
    Running =>
    \A a \in FillArgs :
        LET r == fill_now(a) IN
        (ip_is_unicast(a[1]) /\ r.panic = "") =>
        \A t \in Timestamps \cup {a[3] + ENTRY_LIFETIME - 1, a[3] + ENTRY_LIFETIME} :
            /\ (a[3] <= t /\ t < a[3] + ENTRY_LIFETIME)
                   => lookup_pure(r.self, a[1], t) = Some(a[2])
            /\ (t >= a[3] + ENTRY_LIFETIME)
                   => lookup_pure(r.self, a[1], t) = None

\* a fill of PADDR_C at 0 has just evicted an entry: PADDR_C resolves at 1000
\* and no longer at 60_000
C1_Witness ==
    /\ Running /\ Evicted /\ net_trace[2] = PADDR_C
    /\ lookup_pure(self, PADDR_C, SILENT_TIME) = Some(HADDR_C)
    /\ lookup_pure(self, PADDR_C, ENTRY_LIFETIME) = None

\* C2: the hush window is global: once a lookup answered NotFound at t, no
\* lookup of any address at t <= t2 < t + 1_000 answers NotFound, whatever
\* was called in between; so any two NotFound answers are at least 1_000 ms
\* apart.
C2_GlobalHush ==
    /\ \A t \in not_found_at : \A p \in PAddrs :
           \A t2 \in Timestamps \cup {t + SILENT_TIME - 1} :
               (t <= t2 /\ t2 < t + SILENT_TIME) => lookup(self, p, t2).ret.tag # "NotFound"
    /\ \A t1, t2 \in not_found_at : t1 < t2 => t2 - t1 >= SILENT_TIME

\* NotFound was answered at 0 and again at 1000, and now another address is
\* hushed at 1000
C2_Witness ==
    /\ {0, SILENT_TIME} \subseteq not_found_at
    /\ \E p \in PAddrs : lookup(self, p, SILENT_TIME).ret = Hushed
    /\ \E p \in PAddrs : lookup(self, p, SILENT_TIME).ret.tag = "Found"

\* C3: a lookup of an address lookup_pure does not resolve answers NotFound
\* and sets hushed_until to t + 1_000 when t >= hushed_until (t = hushed_until
\* included), and answers Hushed when t < hushed_until; so the window
\* re-opens once it has elapsed.
C3_LookupUnresolved ==
    Running =>
    \A p \in PAddrs : \A t \in Timestamps \cup ({hushed_until - 1, hushed_until} \cap Nat) :
        lookup_pure(self, p, t) = None =>
            IF t >= hushed_until
            THEN /\ lookup(self, p, t).ret = NotFound
                 /\ lookup(self, p, t).self.hushed_until = t + SILENT_TIME
            ELSE lookup(self, p, t).ret = Hushed

\* the window opened at 0 ended at 1000, and the lookup at exactly 1000 was
\* answered NotFound and opened the next one
C3_Witness ==
    /\ not_found_at = {0, SILENT_TIME}
    /\ hushed_until = SILENT_TIME + SILENT_TIME

\* the arguments that keep the precondition of fill
Unicast(a) == ip_is_unicast(a[1]) /\ eth_is_unicast(a[2])

\* C4: a fill of an absent key into a full slice removes exactly one entry,
\* one with the smallest expires_at; every other entry keeps its key,
\* hardware address and expires_at; the new entry is there afterwards.
C4_EvictsEarliest ==
    Running =>
    \A a \in FillArgs :
        LET r == fill_now(a)
            before == entries(storage)
            after == r.self.storage
        IN  (storage.kind = "Borrowed" /\ Full(storage) /\ a[1] \notin keys(storage)) =>
            /\ Unicast(a) => r.panic = ""
            /\ r.panic = "" =>
                /\ \E v \in keys(storage) :
                       /\ keys(after) = (keys(storage) \ {v}) \cup {a[1]}
                       /\ \A i \in 1..Len(before) :
                              unwrap(map_get(storage, v)).expires_at <= before[i].value.expires_at
                /\ Len(entries(after)) = Len(before)
                /\ \A i \in 1..Len(before) :
                       before[i].key \in keys(after) => map_get(after, before[i].key) = Some(before[i].value)
                /\ map_get(after, a[1]) = Some(Neighbor(a[2], a[3] + ENTRY_LIFETIME))

\* a fill has just evicted from a full slice an entry that was not in its
\* first slot: a smaller key that was there before is still there
C4_Witness ==
    /\ Running /\ Evicted /\ Full(storage)
    /\ \E k \in keys(storage) : k # net_trace[2] /\ k < net_trace[4]

\* C5: a fill of a present key replaces its entry in place: lookups return
\* the new hardware address, the number of entries is the same, no other
\* entry is removed or changed (nothing is evicted, even from a full slice);
\* and in every reachable state no protocol address has two entries.
C5_ReplaceInPlace ==
    /\ Len(entries(storage)) = Cardinality(keys(storage))
    /\ Running =>
       \A a \in FillArgs :
           LET r == fill_now(a)
               after == r.self.storage
           IN  a[1] \in keys(storage) =>
               /\ Unicast(a) => r.panic = ""
               /\ r.panic = "" =>
                   /\ Len(after.pairs) = Len(storage.pairs)
                   /\ \A i \in 1..Len(storage.pairs) :
                          IF is_some(storage.pairs[i]) /\ unwrap(storage.pairs[i]).key = a[1]
                          THEN after.pairs[i] = Some(Pair(a[1], Neighbor(a[2], a[3] + ENTRY_LIFETIME)))
                          ELSE after.pairs[i] = storage.pairs[i]
                   /\ ~(Len(r.trace) > 0 /\ r.trace[1] = "filled (evicted)")
                   /\ ip_is_unicast(a[1]) =>
                          \A t \in Timestamps :
                              (a[3] <= t /\ t < a[3] + ENTRY_LIFETIME)
                                  => lookup_pure(r.self, a[1], t) = Some(a[2])

\* a fill has just replaced the hardware address of an entry of a full slice
\* of two or more slots
C5_Witness ==
    /\ Running /\ Replaced /\ Full(storage) /\ Len(storage.pairs) >= 2
    /\ lookup_pure(self, net_trace[2], SILENT_TIME) = Some(net_trace[3])

\* C6: in every reachable state and at every timestamp lookup_pure of the
\* broadcast address is the hardware broadcast address, so lookup of it is
\* Found(hardware broadcast) and leaves hushed_until alone.
C6_Broadcast ==
    \A t \in Timestamps :
        /\ lookup_pure(self, IP_BROADCAST, t) = Some(ETHERNET_BROADCAST)
        /\ lookup(self, IP_BROADCAST, t).ret = Found(ETHERNET_BROADCAST)
        /\ lookup(self, IP_BROADCAST, t).self = self

\* the storage holds an entry under the broadcast address (a release build
\* let the fill through) and a hush window is open
C6_Witness ==
    /\ Running
    /\ IP_BROADCAST \in keys(storage)
    /\ map_get(storage, IP_BROADCAST) = Some(Neighbor(HADDR_A, ENTRY_LIFETIME))
    /\ SILENT_TIME - 1 < hushed_until

\* C7: constructing a cache over a slice of no slots panics in Cache::new, so
\* that no fill and no lookup ever runs on a cache of capacity zero.
C7_ZeroCapacityPanicsInNew ==
    (storage.kind = "Borrowed" /\ Len(storage.pairs) = 0) => ~Running

\* C8: lookup answers Found(h) exactly when lookup_pure of the same address
\* and timestamp is h, whatever hushed_until is: an open window never hides
\* a valid mapping, and a lookup that answers Found changes neither
\* hushed_until nor the storage.
C8_FoundIffPure ==
    \A p \in PAddrs : \A t \in Timestamps \cup ({hushed_until - 1} \cap Nat) :
        LET pure == lookup_pure(self, p, t)
            r == lookup(self, p, t)
        IN  /\ is_some(pure) <=> r.ret.tag = "Found"
            /\ is_some(pure) => (r.ret = Found(unwrap(pure)) /\ r.self = self)

\* a hush window is open at 999 and an address filled since then resolves
\* at 999
C8_Witness ==
    /\ Running
    /\ SILENT_TIME - 1 < hushed_until
    /\ 0 \in not_found_at
    /\ \E p \in PAddrs : /\ ip_is_unicast(p)
                         /\ lookup(self, p, SILENT_TIME - 1).ret.tag = "Found"

\* C9: fill is idempotent: fill(P, H, t) called twice in a row leaves the
\* cache as the first call left it (keys, hardware addresses, expires_at,
\* hushed_until), for a slice of any capacity >= 1, a full one included.
C9_FillIdempotent ==
    Running =>
    \A a \in FillArgs :
        LET first == fill_now(a)
            second == fill(first.self, a[1], a[2], a[3], debug_assertions)
        IN  first.panic = "" => (second.panic = "" /\ second.self = first.self)

\* a full slice of two or more slots whose last fill gave nothing to
\* net_trace!: it met its key with the same hardware address
C9_Witness ==
    /\ Running /\ net_trace = <<>>
    /\ Full(storage) /\ Len(storage.pairs) >= 2

\* C10: over a BTreeMap fill never evicts: the eviction branch is never
\* reached, a key once filled stays whatever is called next (every call
\* leaves the keys there are, a fill adds its own), and there are as many
\* entries as distinct keys filled so far.
C10_OwnedNeverEvicts ==
    (storage.kind = "Owned" /\ Running) =>
        /\ ~Evicted
        /\ Len(entries(storage)) = Cardinality(keys(storage))
        /\ \A a \in FillArgs :
               LET r == fill_now(a) IN
               /\ map_insert(storage, a[1], Neighbor(a[2], a[3] + ENTRY_LIFETIME)).ret.tag = "Ok"
               /\ r.panic \in {"", "debug_assert"}
               /\ ~(Len(r.trace) > 0 /\ r.trace[1] = "filled (evicted)")
               /\ r.panic = "" =>
                      /\ keys(r.self.storage) = keys(storage) \cup {a[1]}
                      /\ Len(entries(r.self.storage)) = Cardinality(keys(storage) \cup {a[1]})
        /\ \A p \in PAddrs : \A t \in Timestamps :
               lookup(self, p, t).self.storage = storage

\* the map has grown beyond the largest slice, and entries that have expired
\* at 60_000 are still in it
C10_Witness ==
    /\ Running /\ storage.kind = "Owned"
    /\ Len(entries(storage)) > MaxCap
    /\ \E k \in keys(storage) :
           unwrap(map_get(storage, k)).expires_at <= ENTRY_LIFETIME

\* C11: the tracer passes frames through: a consume of one of its tokens
\* gives the writer exactly one call, with the timestamp of the consume; on
\* receive the writer is called before f sees the frame, on transmit after f
\* has filled it; the writer is shown the very frame f sees or leaves; the
\* result of f is what consume returns, and the frame sent is the one f wrote.
C11_TracerPassThrough ==
    Len(tracer.log) > 0 =>
        LET c == tracer.call
            log == tracer.log
            W == { i \in 1..Len(log) : log[i][1] = "writer" }
            F == { i \in 1..Len(log) : log[i][1] = "f" }
        IN  /\ Cardinality(W) = 1
            /\ Cardinality(F) = 1
            /\ tracer.result = c.f.result
            /\ \A i \in W : \A j \in F :
                   /\ log[i][2] = c.timestamp
                   /\ c.dir = "rx" =>
                          /\ i < j
                          /\ log[i][3] = "<- "
                          /\ log[i][4] = c.frame
                          /\ log[j][2] = c.frame
                          /\ tracer.sent = None
                   /\ c.dir = "tx" =>
                          /\ j < i
                          /\ log[i][3] = "-> "
                          /\ log[j][2] = inner_tx_buffer(c.len)
                          /\ log[i][4] = c.frame
                          /\ tracer.sent = Some(c.frame)

\* a frame of the greatest length has been transmitted at a timestamp past 0
\* through a token of the tracer, and f returned an error
C11_Witness ==
    /\ Len(tracer.log) > 0
    /\ tracer.call.dir = "tx"
    /\ tracer.call.timestamp > 0
    /\ tracer.call.len = MaxFrameLen
    /\ tracer.result.tag = "Err"
    /\ tracer.sent = Some(tracer.call.frame)

\* the timestamps at which the entries stored now expire
ExpiryTimes == { entries(storage)[i].value.expires_at : i \in 1..Len(entries(storage)) }

\* C12: expiry is lazy: no lookup, at whatever timestamp, adds, removes or
\* changes an entry (lookup_pure cannot: it returns only its answer); an
\* entry expired at the timestamp of a fill is still there after the fill,
\* as it was, unless the fill was of its key or evicted it from a full slice;
\* and a slice full of expired entries still has no room for a new key.
C12_LazyExpiry ==
    Running =>
    /\ \A p \in PAddrs : \A t \in Timestamps \cup ExpiryTimes :
           /\ lookup(self, p, t).self.storage = storage
           /\ lookup_pure(self, p, t) \in {None} \cup { Some(h) : h \in HAddrs }
    /\ \A a \in FillArgs :
           LET r == fill_now(a)
               before == entries(storage)
               neighbor == Neighbor(a[2], a[3] + ENTRY_LIFETIME)
           IN  /\ (Full(storage) /\ a[1] \notin keys(storage))
                      => map_insert(storage, a[1], neighbor).ret = Err
               /\ r.panic = "" =>
                  \A i \in 1..Len(before) :
                      before[i].value.expires_at <= a[3] =>
                          \/ map_get(r.self.storage, before[i].key) = Some(before[i].value)
                          \/ before[i].key = a[1]
                          \/ /\ Full(storage) /\ a[1] \notin keys(storage)
                             /\ Len(r.trace) > 0 /\ r.trace[1] = "filled (evicted)"
                             /\ r.trace[4] = before[i].key

\* every slot of a slice of two or more slots holds an entry that has expired
\* at 60_000, and a lookup at 60_000 was answered NotFound
C12_Witness ==
    /\ Running /\ Full(storage) /\ Len(storage.pairs) >= 2
    /\ \A k \in keys(storage) : lookup_pure(self, k, ENTRY_LIFETIME) = None
    /\ ENTRY_LIFETIME \in not_found_at
    /\ hushed_until = ENTRY_LIFETIME + SILENT_TIME

\* C13: every stored entry is what the most recent fill of its key made it:
\* its expires_at is the timestamp of that fill plus 60_000 and its hardware
\* address the one of that fill; a fill of another key leaves it as it is if
\* it leaves it at all, and a lookup leaves it as it is.
C13_ExpiresAtLastFill ==
    Running =>
    /\ DOMAIN last_fill = keys(storage)
    /\ \A k \in keys(storage) :
           map_get(storage, k) = Some(Neighbor(last_fill[k][1], last_fill[k][2] + ENTRY_LIFETIME))
    /\ \A a \in FillArgs :
           LET r == fill_now(a) IN
           r.panic = "" =>
               \A k \in keys(r.self.storage) \ {a[1]} :
                   map_get(r.self.storage, k) = map_get(storage, k)
    /\ \A p \in PAddrs : \A t \in Timestamps :
           LET after == lookup(self, p, t).self.storage IN
           \A k \in keys(storage) : map_get(after, k) = map_get(storage, k)

\* an entry has just been filled again, at 1000 and with another hardware
\* address, beside an entry filled at 60_000
C13_Witness ==
    /\ Running /\ Replaced
    /\ net_trace[2] \in DOMAIN last_fill
    /\ last_fill[net_trace[2]] = <<net_trace[3], SILENT_TIME>>
    /\ \E k \in DOMAIN last_fill : k # net_trace[2] /\ last_fill[k][2] = ENTRY_LIFETIME

\* C20: at every u64 timestamp, those within 60_000 of u64::MAX included, the
\* additions in fill and in lookup do not go past u64::MAX: no call dies of
\* the overflow, every stored expires_at is, in the order of u64, after the
\* timestamp of the fill that stored it, and hushed_until is after the
\* timestamp of the lookup that set it (which is hushed_until - 1_000).
C20_AdditionsDoNotWrap ==
    /\ panicked # "attempt to add with overflow"
    /\ Running =>
       /\ \A k \in DOMAIN last_fill \cap keys(storage) :
              u64_lt(last_fill[k][2], unwrap(map_get(storage, k)).expires_at)
       /\ not_found_at # {} => u64_lt(hushed_until - SILENT_TIME, hushed_until)

\* C14: a slice of N slots never holds more than N entries; a fill of a new
\* key into a slice holding N leaves it holding N, and a fill of a new key
\* into a slice holding fewer adds one entry and removes or changes none.
C14_BoundedCount ==
    storage.kind = "Borrowed" =>
    /\ Len(entries(storage)) <= Len(storage.pairs)
    /\ Running =>
       \A a \in FillArgs :
           LET r == fill_now(a)
               before == entries(storage)
               after == r.self.storage
           IN  a[1] \notin keys(storage) =>
               /\ Len(after.pairs) = Len(storage.pairs)
               /\ Len(before) = Len(storage.pairs)
                      => Len(entries(after)) = Len(storage.pairs)
               /\ Len(before) < Len(storage.pairs) =>
                      /\ r.panic = ""
                      /\ Len(entries(after)) = Len(before) + 1
                      /\ keys(after) = keys(storage) \cup {a[1]}
                      /\ \A i \in 1..Len(before) :
                             map_get(after, before[i].key) = Some(before[i].value)
                      /\ r.trace = <<"filled (was empty)", a[1], a[2]>>

\* the last free slot of a slice of the greatest capacity has just been
\* filled, with nothing evicted
C14_Witness ==
    /\ Running /\ Full(storage) /\ Len(storage.pairs) = MaxCap
    /\ Len(net_trace) > 0 /\ net_trace[1] = "filled (was empty)"

\* C15: over a slice of one slot or more a fill with unicast addresses
\* completes in every reachable state and in either build: when the first
\* insert is refused every slot is occupied, min_by_key finds a victim, the
\* victim is removed and the second insert is a fresh insertion.
C15_FillCompletes ==
    (storage.kind = "Borrowed" /\ Len(storage.pairs) >= 1 /\ Running) =>
    \A a \in FillArgs :
        Unicast(a) =>
            LET neighbor == Neighbor(a[2], a[3] + ENTRY_LIFETIME)
                pairs == storage.pairs
            IN  /\ \A debug \in BOOLEAN : fill(self, a[1], a[2], a[3], debug).panic = ""
                /\ map_insert(storage, a[1], neighbor).ret = Err =>
                       /\ \A i \in 1..Len(pairs) : is_some(pairs[i])
                       /\ min_by_key(pairs) \in 1..Len(pairs)
                       /\ LET removed == map_remove(storage, unwrap(pairs[min_by_key(pairs)]).key)
                          IN  /\ is_some(removed.ret)
                              /\ map_insert(removed.map, a[1], neighbor).ret = Ok(None)

\* a fill has just evicted the only entry of a slice of one slot
C15_Witness ==
    /\ Running /\ Evicted
    /\ Len(storage.pairs) = 1
    /\ keys(storage) = {net_trace[2]}

\* C17: lookup answers Hushed only after a request was let through lately: a
\* cache that has answered no NotFound yet answers no Hushed, and a Hushed
\* answer at t comes after a lookup answered NotFound at some t0 with
\* t < t0 + 1_000.
C17_HushedAfterNotFound ==
    Running =>
    /\ not_found_at = {} => hushed_until = 0
    /\ \A p \in PAddrs : \A t \in Timestamps \cup ({hushed_until - 1, hushed_until} \cap Nat) :
           lookup(self, p, t).ret = Hushed =>
               \E t0 \in not_found_at : t < t0 + SILENT_TIME

\* an address was answered NotFound at 60_000 and nothing before that;
\* another address, filled but expired by then, is hushed at 60_000
C17_Witness ==
    /\ Running
    /\ not_found_at = {ENTRY_LIFETIME}
    /\ \E k \in keys(storage) : lookup(self, k, ENTRY_LIFETIME).ret = Hushed
    /\ \E p \in PAddrs : lookup(self, p, SILENT_TIME).ret.tag = "Found"

\* C18: hushed_until changes only in a lookup that answers NotFound, and
\* then it grows: no fill changes it (not even one resolving the address
\* whose lookup opened the window), no lookup answering Found or Hushed
\* changes it (lookup_pure returns only its answer).
C18_HushedUntilFrame ==
    Running =>
    /\ \A a \in FillArgs : fill_now(a).self.hushed_until = hushed_until
    /\ \A p \in PAddrs : \A t \in Timestamps \cup ({hushed_until - 1, hushed_until} \cap Nat) :
           LET r == lookup(self, p, t) IN
           IF r.ret = NotFound
           THEN r.self.hushed_until > hushed_until
           ELSE r.self.hushed_until = hushed_until

\* the window opened by a NotFound at 0 is still open at 0 although the last
\* call filled an address that now resolves at 0, and the other addresses
\* are hushed at 0
C18_Witness ==
    /\ Running
    /\ not_found_at = {0} /\ hushed_until = SILENT_TIME
    /\ Len(net_trace) > 0 /\ net_trace[1] = "filled (was empty)"
    /\ lookup(self, net_trace[2], 0).ret = Found(net_trace[3])
    /\ \E p \in PAddrs : lookup(self, p, 0).ret = Hushed

\* C19: when a fill at t of a new key into a full slice finds an entry with
\* expires_at <= t, the entry it evicts has expires_at <= t, and every entry
\* valid at t (t < expires_at) is answered by lookup_pure at t after the fill
\* as before it.
C19_EvictsStaleFirst ==
    (Running /\ storage.kind = "Borrowed" /\ Full(storage)) =>
    \A a \in FillArgs :
        LET r == fill_now(a)
            before == entries(storage)
        IN  (/\ a[1] \notin keys(storage)
             /\ r.panic = ""
             /\ \E i \in 1..Len(before) : before[i].value.expires_at <= a[3]) =>
            /\ \E i \in 1..Len(before) :
                   /\ before[i].key \notin keys(r.self.storage)
                   /\ before[i].value.expires_at <= a[3]
                   /\ r.trace = <<"filled (evicted)", a[1], a[2],
                                  before[i].key, before[i].value.hardware_addr>>
            /\ \A i \in 1..Len(before) :
                   a[3] < before[i].value.expires_at =>
                       /\ map_get(r.self.storage, before[i].key) = Some(before[i].value)
                       /\ lookup_pure(r.self, before[i].key, a[3])
                              = lookup_pure(self, before[i].key, a[3])
                       /\ is_some(lookup_pure(r.self, before[i].key, a[3]))

\* a fill at 60_000 has just evicted an entry from a full slice: a smaller
\* key, in a slot before the victim's and still valid at 60_000, is still
\* there
C19_Witness ==
    /\ Running /\ Evicted /\ Full(storage)
    /\ net_trace[2] \in DOMAIN last_fill
    /\ last_fill[net_trace[2]][2] = ENTRY_LIFETIME
    /\ \E k \in keys(storage) :
           /\ k < net_trace[4]
           /\ k # net_trace[2]
           /\ is_some(lookup_pure(self, k, ENTRY_LIFETIME))

\* the fills of an absent key that a caller whose clock does not go back can
\* make now into the full slice, and that complete
EvictingFills ==
    { a \in FillArgs : /\ fill_clock <= a[3]
                       /\ a[1] \notin keys(storage)
                       /\ fill_now(a).panic = "" }

\* C16, as claimed: where the timestamps of the fills never decrease, the
\* entry evicted by a fill of a new key into a full slice is the one whose
\* most recent fill is the earliest in call order among the stored entries.
C16_EvictsLeastRecentlyFilled ==
    (Running /\ storage.kind = "Borrowed" /\ Full(storage)) =>
    \A a \in EvictingFills : fill_now(a).trace[4] = fill_order[1]

\* C16, as the code has it: where the timestamps of the fills never decrease,
\* the stored keys in the call order of their most recent fills have
\* timestamps that never decrease, and the entry evicted by a fill of a new
\* key into a full slice is one whose most recent fill has the earliest
\* timestamp: the earliest in call order when no other entry was last filled
\* at that timestamp, the one of the lowest address when others were.
C16_EvictsEarliestFilled ==
    (Running /\ storage.kind = "Borrowed") =>
    /\ Len(fill_order) = Len(entries(storage))
    /\ { fill_order[i] : i \in 1..Len(fill_order) } = keys(storage)
    /\ \A i, j \in 1..Len(fill_order) :
           i < j => last_fill[fill_order[i]][2] <= last_fill[fill_order[j]][2]
    /\ Full(storage) =>
       \A a \in EvictingFills :
           LET v == fill_now(a).trace[4] IN
           /\ v \in keys(storage)
           /\ v \notin keys(fill_now(a).self.storage)
           /\ \A k \in keys(storage) :
                  /\ last_fill[v][2] <= last_fill[k][2]
                  /\ last_fill[k][2] = last_fill[v][2] => v <= k
           /\ (\A k \in keys(storage) \ {v} : last_fill[k][2] # last_fill[v][2])
                  => v = fill_order[1]

\* a full slice whose entries were last filled at one timestamp, a higher
\* address before a lower one: a fill of a new key that can come next
\* evicts the lower address, which is not the least recently filled entry
C16_Witness ==
    /\ Running /\ Full(storage) /\ Len(storage.pairs) >= 2
    /\ \A k \in keys(storage) : last_fill[k][2] = fill_clock
    /\ fill_order[1] > fill_order[2]
    /\ \E a \in EvictingFills :
           /\ fill_now(a).trace[4] # fill_order[1]
           /\ fill_now(a).trace[4] = entries(storage)[1].key

====
